---- MODULE Spec2Model ----
(***************************************************************************)
(* Model of catweazle_register.Register: one run of the registration      *)
(* workflow (pre-sleep, instance-id lookup, polling of the CatWeazle API   *)
(* with fallback from /api/v2 to /api/v1, then the preflight and register  *)
(* script batches).  The HTTP servers, the script directories and the      *)
(* child processes are the environment: every answer they can give is      *)
(* drawn from a small set at the step that asks for it.                    *)
(***************************************************************************)
EXTENDS Integers, Sequences, FiniteSets, TLC

VARIABLES
    pc,           \* position of the single thread of control
    retry,        \* Register._retry
    no_otp_ok,    \* Register._no_otp_ok
    instance_id_, \* Register._instance_id
    fqdn_,        \* Register._fqdn
    otp_,         \* Register._otp
    attempt,      \* iterations of the for loop of get_cw_data started so far
    api,          \* API generation of the last request ("v2" or "v1")
    resp,         \* local variable resp of get_cw_data
    data,         \* local variable data of get_cw_data
    script_type,  \* argument of the current run_scripts call
    files,        \* local variable files of run_scripts
    idx,          \* position of the for loop of run_scripts in files
    fs,           \* the two script directories: name -> entry
    seen,         \* per batch, the directory as get_scripts found it
    changes,      \* modifications made to the directories by other processes
    exit_code,    \* process exit status, meaningful once the run has ended
    fatal,        \* why the run ended early ("" while it has not)
    trace         \* what the run has done to the outside world, in order

vars == <<pc, retry, no_otp_ok, instance_id_, fqdn_, otp_, attempt, api, resp, data,
          script_type, files, idx, fs, seen, changes, exit_code, fatal, trace>>

----------------------------------------------------------------------------
(* Bounds of the model *)

MaxRetry == 2
MaxDepth == 2
MaxChanges == 1

(* Program constants *)

HTTP_OK == 200
RETRY_SLEEP == 5
DEFAULT_PRE_SLEEP == 30
S_IXUSR == 64
S_IWGRP == 16
S_IWOTH == 2
ROOT_UID == 0
EXIT_FATAL == 1
PREFLIGHT_FAILURE_CODE == 0

(* Python values *)

None == "<None>"
NO_OTP == "NO_OTP"

\* Truth value testing of a str or None, as "not x" applies it.
Falsy(v) == v = None \/ v = ""

----------------------------------------------------------------------------
(* JSON documents.  A document is depth nested {"data": ...} objects around *)
(* a payload object that may hold "fqdn" and "ipa_otp"; a JSON null is the   *)
(* Python None.  A body that is not JSON has json = FALSE.                   *)

FqdnValues == {"", "host1.example.com"}
OtpValues == {"", None, "secret123"}

Payloads ==
    {[has_fqdn |-> hf, fqdn |-> f, has_otp |-> ho, ipa_otp |-> t] :
        hf \in BOOLEAN, f \in FqdnValues, ho \in BOOLEAN, t \in OtpValues}

NormalPayloads ==
    {p \in Payloads : (~p.has_fqdn => p.fqdn = "") /\ (~p.has_otp => p.ipa_otp = "")}

NotJson == [json |-> FALSE, depth |-> 0,
            obj |-> [has_fqdn |-> FALSE, fqdn |-> "", has_otp |-> FALSE, ipa_otp |-> ""]]

Documents == {[json |-> TRUE, depth |-> d, obj |-> p] : d \in 0..MaxDepth, p \in NormalPayloads}

Bodies == {NotJson} \cup Documents

\* key in doc
HasKey(doc, key) ==
    IF doc.depth > 0 THEN key = "data"
    ELSE \/ key = "fqdn" /\ doc.obj.has_fqdn
         \/ key = "ipa_otp" /\ doc.obj.has_otp

\* doc["data"], defined when HasKey(doc, "data")
GetData(doc) == [doc EXCEPT !.depth = @ - 1]

----------------------------------------------------------------------------
(* HTTP answers: a transport error (httpx raises), or a status and a body *)

Statuses == {HTTP_OK, 404}

ConnectError == [err |-> TRUE, status |-> 0, text |-> "", body |-> NotJson]

MetaResponses ==
    {ConnectError,
     [err |-> FALSE, status |-> HTTP_OK, text |-> "i-0123", body |-> NotJson],
     [err |-> FALSE, status |-> HTTP_OK, text |-> "", body |-> NotJson],
     [err |-> FALSE, status |-> 404, text |-> "Not Found", body |-> NotJson]}

NoResponse == [err |-> FALSE, status |-> 0, text |-> "", body |-> NotJson]

ApiResponses ==
    {ConnectError} \cup
    {[err |-> FALSE, status |-> HTTP_OK, text |-> "", body |-> b] : b \in Bodies} \cup
    {[err |-> FALSE, status |-> 404, text |-> "", body |-> NotJson]}

----------------------------------------------------------------------------
(* The script directories.  A file name is the sequence of its character   *)
(* codes, so that list.sort orders names as Python orders str.              *)

Batches == {"preflight", "register"}

Names == {<<97>>, <<97, 98>>, <<98>>}

Modes == {384 + x * S_IXUSR + g * S_IWGRP + o * S_IWOTH : x, g, o \in {0, 1}}

Uids == {ROOT_UID, 1000}

Absent == [present |-> FALSE, isfile |-> FALSE, uid |-> ROOT_UID, mode |-> 0]

Entries == {[present |-> TRUE, isfile |-> f, uid |-> u, mode |-> m] :
                f \in BOOLEAN, u \in Uids, m \in Modes}

\* A root-owned rwx------ regular file
GoodEntry == [present |-> TRUE, isfile |-> TRUE, uid |-> ROOT_UID, mode |-> 384 + S_IXUSR]

EmptyDir == [n \in Names |-> Absent]

\* mode & mask, for a mask of one bit
BitAnd(mode, mask) == ((mode \div mask) % 2) * mask

\* str.__lt__ on names
RECURSIVE LexLess(_, _)
LexLess(s, t) ==
    IF s = <<>> THEN t # <<>>
    ELSE IF t = <<>> THEN FALSE
    ELSE IF Head(s) # Head(t) THEN Head(s) < Head(t)
    ELSE LexLess(Tail(s), Tail(t))

\* x placed into the ascending sequence s
RECURSIVE Insert(_, _)
Insert(x, s) ==
    IF s = <<>> THEN <<x>>
    ELSE IF LexLess(x, Head(s)) THEN <<x>> \o s
    ELSE <<Head(s)>> \o Insert(x, Tail(s))

\* Mutant: the listing is used in the order os.listdir gave
Sort_Missing(s) == s

\* candidates.sort()
RECURSIVE Sort(_)
Sort(s) == IF s = <<>> THEN <<>> ELSE Insert(Head(s), Sort(Tail(s)))

\* The orders in which os.listdir may return the names present in dir
Listings(dir) ==
    LET present == {n \in Names : dir[n].present}
        k == Cardinality(present)
    IN {s \in [1..k -> present] : \A i, j \in 1..k : i # j => s[i] # s[j]}

\* Mutant: the S_IWOTH test is left out
check_script_NoOtherTest(e) ==
    IF ~e.isfile THEN FALSE
    ELSE IF ~(e.uid = ROOT_UID) THEN FALSE
    ELSE IF BitAnd(e.mode, S_IXUSR) # 64 THEN FALSE
    ELSE IF BitAnd(e.mode, S_IWGRP) = 16 THEN FALSE
    ELSE TRUE

\* Register.check_script on the entry the candidate path names
check_script(e) ==
    IF ~e.isfile THEN FALSE
    ELSE IF ~(e.uid = ROOT_UID) THEN FALSE
    ELSE IF BitAnd(e.mode, S_IXUSR) # 64 THEN FALSE
    ELSE IF BitAnd(e.mode, S_IWOTH) = 2 THEN FALSE
    ELSE IF BitAnd(e.mode, S_IWGRP) = 16 THEN FALSE
    ELSE TRUE

\* Mutant: the first rejected candidate ends the loop
RECURSIVE Accepted_StopAtRejected(_, _)
Accepted_StopAtRejected(candidates, dir) ==
    IF candidates = <<>> THEN <<>>
    ELSE IF check_script(dir[Head(candidates)])
      THEN <<Head(candidates)>> \o Accepted_StopAtRejected(Tail(candidates), dir)
      ELSE <<>>

\* The loop of get_scripts over the sorted candidates
RECURSIVE Accepted(_, _)
Accepted(candidates, dir) ==
    IF candidates = <<>> THEN <<>>
    ELSE (IF check_script(dir[Head(candidates)]) THEN <<Head(candidates)>> ELSE <<>>)
         \o Accepted(Tail(candidates), dir)

\* Register.get_scripts, given the order os.listdir returned
get_scripts(listing, dir) == Accepted(Sort(listing), dir)

\* Register.otp
otp == IF Falsy(otp_) THEN NO_OTP ELSE otp_

\* Mutant: run passes no failure_return_code for preflight
failure_return_code_Default(batch) == EXIT_FATAL

\* failure_return_code of the run_scripts call for a batch
failure_return_code(batch) ==
    IF batch = "preflight" THEN PREFLIGHT_FAILURE_CODE ELSE EXIT_FATAL

----------------------------------------------------------------------------
(* Events of the trace *)

Event(op) == [op |-> op, api |-> "", id |-> "", batch |-> "", file |-> <<>>,
              argv |-> <<>>, n |-> 0]

EvSleep(secs) == [Event("sleep") EXCEPT !.n = secs]
EvMeta(status) == [Event("meta") EXCEPT !.n = status]
EvGet(a, id, k) == [Event("get") EXCEPT !.api = a, !.id = id, !.n = k]
EvExec(b, f, args) == [Event("exec") EXCEPT !.batch = b, !.file = f, !.argv = args]
EvWait(b, f, rc) == [Event("wait") EXCEPT !.batch = b, !.file = f, !.n = rc]

----------------------------------------------------------------------------
(* Register.instance_id: the metadata service is asked whenever the cached *)
(* value is falsy, and whatever text it answers is cached, whatever the     *)
(* status.  m is the answer the service gives if it is asked.               *)

MetaAsked == Falsy(instance_id_)

MetaChoices == IF MetaAsked THEN MetaResponses ELSE {ConnectError}

MetaRaises(m) == MetaAsked /\ m.err

instance_id(m) == IF MetaAsked THEN m.text ELSE instance_id_

MetaEvents(m) == IF MetaAsked THEN <<EvMeta(m.status)>> ELSE <<>>

----------------------------------------------------------------------------
(* Ends of the run *)

\* An uncaught exception: the interpreter prints the traceback and exits 1
Raise(exception, events) ==
    /\ pc' = "crashed"
    /\ exit_code' = 1
    /\ fatal' = exception
    /\ trace' = trace \o events

\* sys.exit(code)
SysExit(code, why, events) ==
    /\ pc' = "exited"
    /\ exit_code' = code
    /\ fatal' = why
    /\ trace' = trace \o events

\* control moves on to label
Goto(label, events) ==
    /\ pc' = label
    /\ trace' = trace \o events
    /\ UNCHANGED <<exit_code, fatal>>

config == <<retry, no_otp_ok>>
record == <<fqdn_, otp_>>
runner == <<script_type, files, idx, seen>>
world == <<fs, changes>>

----------------------------------------------------------------------------
(* Register.run, lines 219-222 *)

\* Mutant: the run starts without time.sleep(self.pre_sleep)
PreSleep_Skipped ==
    /\ pc = "start"
    /\ Goto("identity", <<>>)
    /\ UNCHANGED <<config, instance_id_, record, attempt, api, resp, data, runner, world>>

PreSleep ==
    /\ pc = "start"
    /\ Goto("identity", <<EvSleep(DEFAULT_PRE_SLEEP)>>)
    /\ UNCHANGED <<config, instance_id_, record, attempt, api, resp, data, runner, world>>

(* Register.run, line 223: the first read of self.instance_id *)

LogInstanceId ==
    /\ pc = "identity"
    /\ \E m \in MetaChoices :
          /\ IF MetaRaises(m)
                THEN Raise("ConnectError", MetaEvents(m)) /\ UNCHANGED instance_id_
                ELSE Goto("loop", MetaEvents(m)) /\ instance_id_' = instance_id(m)
    /\ UNCHANGED <<config, record, attempt, api, resp, data, runner, world>>

----------------------------------------------------------------------------
(* Register.get_cw_data *)

\* Mutant: the loop runs once more than retry
LoopContinues_OffByOne == attempt <= retry

\* for _ in range(self.retry): another iteration follows
LoopContinues == attempt < retry

\* Mutant: an incomplete attempt goes on without the delay
IncompleteSleep_Missing == <<>>

\* time.sleep(5) of an incomplete attempt
IncompleteSleep == <<EvSleep(RETRY_SLEEP)>>

\* Mutant: no status counts as success
StatusOk_Never(status) == FALSE

\* status_code is 200: CPython keeps one object for each small int, so the
\* identity test is the equality test for the int httpx gives
StatusOk(status) == status = HTTP_OK

\* Mutant: a missing otp is accepted whatever the flag
AcceptMissingOtp_Always == TRUE

\* elif self.no_otp_ok
AcceptMissingOtp == no_otp_ok

\* Mutant: the fqdn is read from the wrong key
PayloadFqdn_FromOtp(payload) == payload.obj.ipa_otp

\* data["data"]["fqdn"] and data["data"]["ipa_otp"] of a payload holding them
PayloadFqdn(payload) == payload.obj.fqdn
PayloadOtp(payload) == payload.obj.ipa_otp

\* Mutant: the legacy body is read as if it had the primary shape
LegacyData_NotUnwrapped(body) == body

\* data = resp.json()["data"] of the legacy API, for a body holding "data"
LegacyData(body) == GetData(body)

\* lines 138-147: the next iteration starts and queries /api/v2
QueryPrimary ==
    /\ pc = "loop"
    /\ LoopContinues
    /\ attempt' = attempt + 1
    /\ \E m \in MetaChoices, r \in ApiResponses :
          LET get == MetaEvents(m) \o <<EvGet("v2", instance_id(m), attempt + 1)>> IN
          IF MetaRaises(m)
            THEN /\ Raise("ConnectError", MetaEvents(m))
                 /\ UNCHANGED <<instance_id_, api, resp, data>>
            ELSE /\ instance_id_' = instance_id(m)
                 /\ api' = "v2"
                 /\ resp' = r
                 /\ IF r.err
                      THEN Raise("ConnectError", get) /\ UNCHANGED data
                    ELSE IF StatusOk(r.status)
                      THEN IF r.body.json
                             THEN Goto("eval", get) /\ data' = r.body
                             ELSE Raise("JSONDecodeError", get) /\ UNCHANGED data
                      ELSE Goto("fallback", get) /\ UNCHANGED data
    /\ UNCHANGED <<config, record, runner, world>>

\* lines 148-157: the primary API did not answer 200, /api/v1 is queried
QueryLegacy ==
    /\ pc = "fallback"
    /\ \E m \in MetaChoices, r \in ApiResponses :
          LET get == MetaEvents(m) \o <<EvGet("v1", instance_id(m), attempt)>> IN
          IF MetaRaises(m)
            THEN /\ Raise("ConnectError", MetaEvents(m))
                 /\ UNCHANGED <<instance_id_, api, resp, data>>
            ELSE /\ instance_id_' = instance_id(m)
                 /\ api' = "v1"
                 /\ resp' = r
                 /\ IF r.err
                      THEN Raise("ConnectError", get) /\ UNCHANGED data
                    ELSE IF StatusOk(r.status)
                      THEN IF ~r.body.json
                             THEN Raise("JSONDecodeError", get) /\ UNCHANGED data
                           ELSE IF ~HasKey(r.body, "data")
                             THEN Raise("KeyError", get) /\ UNCHANGED data
                           ELSE Goto("eval", get) /\ data' = LegacyData(r.body)
                      ELSE Goto("loop", get \o IncompleteSleep) /\ UNCHANGED data
    /\ UNCHANGED <<config, record, attempt, runner, world>>

\* return: the locals of get_cw_data are gone
Return ==
    /\ Goto("list", <<>>)
    /\ api' = ""
    /\ resp' = NoResponse
    /\ data' = NotJson

\* lines 158-174: the answer of whichever API answered 200 is evaluated
Evaluate ==
    /\ pc = "eval"
    /\ IF ~HasKey(data, "data")
         THEN Raise("KeyError", <<>>) /\ UNCHANGED <<record, api, resp, data>>
       ELSE LET payload == GetData(data) IN
         IF HasKey(payload, "ipa_otp")
           THEN IF HasKey(payload, "fqdn")
                  THEN /\ fqdn_' = PayloadFqdn(payload)
                       /\ otp_' = PayloadOtp(payload)
                       /\ Return
                  ELSE Raise("KeyError", <<>>) /\ UNCHANGED <<record, api, resp, data>>
         ELSE IF AcceptMissingOtp
           THEN IF HasKey(payload, "fqdn")
                  THEN /\ fqdn_' = PayloadFqdn(payload)
                       /\ UNCHANGED otp_
                       /\ Return
                  ELSE Raise("KeyError", <<>>) /\ UNCHANGED <<record, api, resp, data>>
         ELSE Goto("loop", IncompleteSleep) /\ UNCHANGED <<record, api, resp, data>>
    /\ UNCHANGED <<config, instance_id_, attempt, runner, world>>

\* Mutant: the exhausted loop ends the process with status 0
Exhausted_ExitsZero ==
    /\ pc = "loop"
    /\ ~LoopContinues
    /\ SysExit(0, "exhausted", <<>>)
    /\ UNCHANGED <<config, instance_id_, record, attempt, api, resp, data, runner, world>>

\* lines 175-176: the loop ran out
Exhausted ==
    /\ pc = "loop"
    /\ ~LoopContinues
    /\ SysExit(EXIT_FATAL, "exhausted", <<>>)
    /\ UNCHANGED <<config, instance_id_, record, attempt, api, resp, data, runner, world>>

----------------------------------------------------------------------------
(* Register.run_scripts, called by run for "preflight" and then "register" *)

ReturnCodes == {0, 3}

\* Mutant: both directories are read when the preflight batch is listed
ListScripts_Early ==
    /\ pc = "list"
    /\ LET dir == IF script_type = "preflight" THEN fs[script_type] ELSE seen[script_type] IN
          \E listing \in Listings(dir) : files' = get_scripts(listing, dir)
    /\ idx' = 1
    /\ seen' = IF script_type = "preflight" THEN fs ELSE seen
    /\ Goto("batch", <<>>)
    /\ UNCHANGED <<config, instance_id_, record, attempt, api, resp, data, script_type, world>>

\* line 209: files = self.get_scripts(path), for any order os.listdir returns
ListScripts ==
    /\ pc = "list"
    /\ \E listing \in Listings(fs[script_type]) :
          files' = get_scripts(listing, fs[script_type])
    /\ idx' = 1
    /\ seen' = [seen EXCEPT ![script_type] = fs[script_type]]
    /\ Goto("batch", <<>>)
    /\ UNCHANGED <<config, instance_id_, record, attempt, api, resp, data, script_type, world>>

\* lines 210-212: the next file of the batch is started
StartScript ==
    /\ pc = "batch"
    /\ idx <= Len(files)
    /\ Goto("running", <<EvExec(script_type, files[idx], <<fqdn_, otp>>)>>)
    /\ UNCHANGED <<config, instance_id_, record, attempt, api, resp, data, runner, world>>

\* Mutant: the for loop does not move on to the next file
NextIndex_Stuck(i) == i

\* line 210: the for loop takes the next file of the list
NextIndex(i) == i + 1

\* lines 212-215: the child exits with rc
ScriptExit ==
    /\ pc = "running"
    /\ \E rc \in ReturnCodes :
          LET wait == <<EvWait(script_type, files[idx], rc)>> IN
          IF rc # 0
            THEN SysExit(failure_return_code(script_type), "script", wait) /\ UNCHANGED idx
            ELSE Goto("batch", wait) /\ idx' = NextIndex(idx)
    /\ UNCHANGED <<config, instance_id_, record, attempt, api, resp, data, script_type, files,
                   seen, world>>

\* line 216, and lines 227-228 of run: the batch is over
BatchDone ==
    /\ pc = "batch"
    /\ idx > Len(files)
    /\ IF script_type = "preflight"
         THEN Goto("list", <<>>) /\ script_type' = "register"
         ELSE Goto("done", <<>>) /\ UNCHANGED script_type
    /\ UNCHANGED <<config, instance_id_, record, attempt, api, resp, data, files, idx, seen, world>>

----------------------------------------------------------------------------
(* Other processes of the host: while a child script runs, one of them (or *)
(* the script itself) may install, remove, chown or chmod a file of either  *)
(* script directory.                                                        *)

GroupWritable == [GoodEntry EXCEPT !.mode = @ + S_IWGRP]
NotRoot == [GoodEntry EXCEPT !.uid = 1000]

Tampered(e) == {Absent, GoodEntry, NotRoot, GroupWritable} \ {e}

EnvChange ==
    /\ pc = "running"
    /\ changes < MaxChanges
    /\ \E b \in Batches, n \in Names :
          \E e \in Tampered(fs[b][n]) : fs' = [fs EXCEPT ![b][n] = e]
    /\ changes' = changes + 1
    /\ UNCHANGED <<pc, config, instance_id_, record, attempt, api, resp, data, runner,
                   exit_code, fatal, trace>>

----------------------------------------------------------------------------
(* The whole run, the directories left alone *)

\* Directories of the whole-run specification
MainDirs ==
    {[preflight |-> (<<97>> :> GoodEntry @@ <<97, 98>> :> GroupWritable @@ <<98>> :> GoodEntry),
      register  |-> (<<97>> :> NotRoot @@ <<97, 98>> :> GoodEntry @@ <<98>> :> GoodEntry)]}

Init ==
    /\ pc = "start"
    /\ retry \in 0..MaxRetry
    /\ no_otp_ok \in BOOLEAN
    /\ instance_id_ = None
    /\ fqdn_ = None
    /\ otp_ = None
    /\ attempt = 0
    /\ api = ""
    /\ resp = NoResponse
    /\ data = NotJson
    /\ script_type = "preflight"
    /\ files = <<>>
    /\ idx = 1
    /\ fs \in MainDirs
    /\ seen = [b \in Batches |-> EmptyDir]
    /\ changes = 0
    /\ exit_code = 0
    /\ fatal = ""
    /\ trace = <<>>

Next ==
    \/ PreSleep
    \/ LogInstanceId
    \/ QueryPrimary
    \/ QueryLegacy
    \/ Evaluate
    \/ Exhausted
    \/ ListScripts
    \/ StartScript
    \/ ScriptExit
    \/ BatchDone

Spec == Init /\ [][Next]_vars

\* Every HTTP call returns, every sleep ends and every child exits: the
\* process is never stopped for ever at a step it can take
SpecFair == Spec /\ WF_vars(Next)

----------------------------------------------------------------------------
(* The script runner alone, from the states in which get_cw_data has just  *)
(* returned on its first attempt, over a wide choice of directories, with    *)
(* other processes modifying the directories while scripts run.             *)

\* One file of every kind between two good ones
AnyMiddleDirs ==
    {(<<97>> :> GoodEntry @@ <<97, 98>> :> e @@ <<98>> :> GoodEntry) : e \in Entries}

\* Every mix of missing, good and group-writable files
SmallDirs == [Names -> {Absent, GoodEntry, GroupWritable}]

RunnerDirs == AnyMiddleDirs \cup SmallDirs

RunnerFs ==
    {[preflight |-> d, register |-> m.register] : d \in RunnerDirs, m \in MainDirs}
    \cup {[preflight |-> m.preflight, register |-> d] : d \in RunnerDirs, m \in MainDirs}

InitRunner ==
    /\ pc = "list"
    /\ retry = 1
    /\ no_otp_ok \in BOOLEAN
    /\ instance_id_ = "i-0123"
    /\ fqdn_ = "host1.example.com"
    /\ otp_ = IF no_otp_ok THEN None ELSE "secret123"
    /\ attempt = 1
    /\ api = ""
    /\ resp = NoResponse
    /\ data = NotJson
    /\ script_type = "preflight"
    /\ files = <<>>
    /\ idx = 1
    /\ fs \in RunnerFs
    /\ seen = [b \in Batches |-> EmptyDir]
    /\ changes = 0
    /\ exit_code = 0
    /\ fatal = ""
    /\ trace = <<EvSleep(DEFAULT_PRE_SLEEP), EvMeta(HTTP_OK), EvGet("v2", "i-0123", 1)>>

NextRunner ==
    \/ ListScripts
    \/ StartScript
    \/ ScriptExit
    \/ BatchDone
    \/ EnvChange

SpecRunner == InitRunner /\ [][NextRunner]_vars

----------------------------------------------------------------------------
(* What the trace holds *)

IsGet(e) == e.op = "get"
IsPrimary(e) == e.op = "get" /\ e.api = "v2"
IsLegacy(e) == e.op = "get" /\ e.api = "v1"
IsRetrySleep(e) == e.op = "sleep" /\ e.n = RETRY_SLEEP
IsExec(e) == e.op = "exec"
IsWait(e) == e.op = "wait"

\* The API generations queried in iteration k, in order
RECURSIVE ApisOf(_, _)
ApisOf(t, k) ==
    IF t = <<>> THEN <<>>
    ELSE (IF IsGet(Head(t)) /\ Head(t).n = k THEN <<Head(t).api>> ELSE <<>>)
         \o ApisOf(Tail(t), k)

\* A 200 answer whose body is a document of nesting d
Answered(d) == ~resp.err /\ resp.status = 200 /\ resp.body.json /\ resp.body.depth = d

\* The answer just received is of the shape of the API that was asked
ShapeOfApi == (api = "v2" /\ Answered(1)) \/ (api = "v1" /\ Answered(2))

PollOver == pc \in {"list", "batch", "running", "done", "exited", "crashed"}

----------------------------------------------------------------------------
(* C1: when every attempt of get_cw_data is incomplete, the loop makes      *)
(* exactly retry attempts, a 5-second sleep lies between any two of them,  *)
(* the process exits with code 1 and no script was started; no run makes   *)
(* more than retry attempts.                                               *)
C1_ExhaustedAfterRetryAttempts ==
    /\ Len(SelectSeq(trace, IsPrimary)) <= retry
    /\ fatal = "exhausted" =>
         /\ pc = "exited"
         /\ exit_code = 1
         /\ attempt = retry
         /\ Len(SelectSeq(trace, IsPrimary)) = retry
         /\ Len(SelectSeq(trace, IsRetrySleep)) = retry
         /\ \A i, j \in DOMAIN trace :
               (i < j /\ IsPrimary(trace[i]) /\ IsPrimary(trace[j]))
                  => \E k \in (i + 1)..(j - 1) : IsRetrySleep(trace[k])
         /\ SelectSeq(trace, IsExec) = <<>>

\* Two incomplete attempts, one answered by /api/v2 and one not, then exit
C1_Witness ==
    /\ fatal = "exhausted"
    /\ retry = 2
    /\ Len(SelectSeq(trace, IsLegacy)) = 1

(* C2: when /api/v2 answers 200 with {"data": {"fqdn": f, "ipa_otp": t}},   *)
(* the next step of get_cw_data returns with _fqdn = f and _otp = t, having *)
(* queried only /api/v2 in this iteration and slept only after the earlier  *)
(* ones; on the first iteration that is one API request in all.             *)
C2_PrimaryAnswerReturned ==
    [][(/\ api = "v2"
        /\ Answered(1)
        /\ resp.body.obj.has_fqdn
        /\ resp.body.obj.has_otp)
       => /\ pc = "eval"
          /\ pc' = "list"
          /\ fqdn_' = resp.body.obj.fqdn
          /\ otp_' = resp.body.obj.ipa_otp
          /\ attempt' = attempt
          /\ trace' = trace
          /\ ApisOf(trace, attempt) = <<"v2">>
          /\ Len(SelectSeq(trace, IsRetrySleep)) = attempt - 1
          /\ (attempt = 1 => Len(SelectSeq(trace, IsGet)) = 1)]_vars

C2_Witness ==
    /\ pc = "list"
    /\ script_type = "preflight"
    /\ attempt = 1
    /\ fqdn_ = "host1.example.com"
    /\ otp_ = "secret123"
    /\ ApisOf(trace, 1) = <<"v2">>

(* C3: when /api/v2 does not answer 200 and /api/v1 answers 200 with        *)
(* {"data": {"data": {"fqdn": f, "ipa_otp": t}}}, the next step returns     *)
(* with _fqdn = f and _otp = t; the iteration made two requests, /api/v2    *)
(* then /api/v1, and no sleep.                                              *)
C3_LegacyAnswerReturned ==
    [][(/\ api = "v1"
        /\ Answered(2)
        /\ resp.body.obj.has_fqdn
        /\ resp.body.obj.has_otp)
       => /\ pc = "eval"
          /\ pc' = "list"
          /\ fqdn_' = resp.body.obj.fqdn
          /\ otp_' = resp.body.obj.ipa_otp
          /\ attempt' = attempt
          /\ trace' = trace
          /\ ApisOf(trace, attempt) = <<"v2", "v1">>
          /\ Len(SelectSeq(trace, IsRetrySleep)) = attempt - 1]_vars

C3_Witness ==
    /\ pc = "list"
    /\ script_type = "preflight"
    /\ attempt = 2
    /\ fqdn_ = "host1.example.com"
    /\ otp_ = "secret123"
    /\ ApisOf(trace, 2) = <<"v2", "v1">>

(* C4: when the API that was asked answers 200 with an fqdn and no ipa_otp: *)
(* without no_otp_ok the iteration sleeps 5 seconds and records nothing,    *)
(* and the loop goes on to its next iteration if it has one; with no_otp_ok *)
(* get_cw_data returns with the fqdn recorded and _otp still None.  Once    *)
(* get_cw_data has returned, no further request or iteration is made.       *)
C4_MissingOtp ==
    [][/\ (/\ pc = "eval"
           /\ ShapeOfApi
           /\ resp.body.obj.has_fqdn
           /\ ~resp.body.obj.has_otp)
          => IF no_otp_ok
               THEN /\ pc' = "list"
                    /\ fqdn_' = resp.body.obj.fqdn
                    /\ otp_' = None
                    /\ trace' = trace
                    /\ attempt' = attempt
               ELSE /\ pc' = "loop"
                    /\ fqdn_' = None
                    /\ otp_' = None
                    /\ trace' = Append(trace, EvSleep(5))
                    /\ attempt' = attempt
       /\ (pc = "loop" /\ attempt < retry) => attempt' = attempt + 1
       /\ PollOver
          => /\ attempt' = attempt
             /\ SelectSeq(trace', IsGet) = SelectSeq(trace, IsGet)]_vars

C4_Witness ==
    /\ pc = "loop"
    /\ ~no_otp_ok
    /\ ShapeOfApi
    /\ resp.body.obj.has_fqdn
    /\ ~resp.body.obj.has_otp
    /\ fqdn_ = None
    /\ trace[Len(trace)] = EvSleep(5)

----------------------------------------------------------------------------
(* C5: a script gets "NO_OTP" as its token argument only in a run with      *)
(* no_otp_ok; without no_otp_ok every script gets the ipa_otp value the API *)
(* returned, an empty or null one included.                                 *)
C5_NoOtpOnlyWhenAccepted ==
    \A i \in DOMAIN trace :
        IsExec(trace[i]) =>
            /\ trace[i].argv[2] = NO_OTP => no_otp_ok
            /\ ~no_otp_ok => trace[i].argv[2] = otp_

(* C6: a 200 answer whose body is not JSON, or lacks "data" or "fqdn", never *)
(* aborts the run: no run ends in an exception raised while the body is      *)
(* read.                                                                     *)
C6_BadBodyNeverAborts ==
    ~(pc = "crashed" /\ fatal \in {"JSONDecodeError", "KeyError"})

----------------------------------------------------------------------------
(* The script runner *)

Bit(mode, mask) == (mode \div mask) % 2 = 1

\* An entry that is a regular file of uid 0, executable by its owner and
\* writable neither by group nor by others
Trusted(e) ==
    /\ e.present
    /\ e.isfile
    /\ e.uid = 0
    /\ Bit(e.mode, 64)
    /\ ~Bit(e.mode, 16)
    /\ ~Bit(e.mode, 2)

Executed(b, n) ==
    \E i \in DOMAIN trace : IsExec(trace[i]) /\ trace[i].batch = b /\ trace[i].file = n

ScriptFailed == \E i \in DOMAIN trace : IsWait(trace[i]) /\ trace[i].n # 0

(* C7: in both batches, every script that is started was, when get_scripts  *)
(* validated the batch, a regular file owned by uid 0, executable by its    *)
(* owner and writable neither by group nor by others.                       *)
C7_OnlyTrustedExecuted ==
    \A i \in DOMAIN trace :
        IsExec(trace[i]) => Trusted(seen[trace[i].batch][trace[i].file])

\* A root-owned executable that only others may write is passed over
\* between two files that run
C7_Witness ==
    /\ pc = "done"
    /\ seen["register"][<<97, 98>>] = [GoodEntry EXCEPT !.mode = @ + S_IWOTH]
    /\ ~Executed("register", <<97, 98>>)
    /\ Executed("register", <<97>>)
    /\ Executed("register", <<98>>)

(* C8: a run that completes has executed every candidate of both batches    *)
(* that passed validation and exits 0; a run ends early, or with a non-zero *)
(* code, only when a script exited non-zero, never because a candidate was  *)
(* rejected.                                                                *)
C8_RejectionNeverAborts ==
    /\ pc = "done" =>
         /\ exit_code = 0
         /\ \A b \in Batches, n \in Names : Trusted(seen[b][n]) => Executed(b, n)
    /\ pc \in {"exited", "crashed"} => ScriptFailed
    /\ exit_code # 0 => ScriptFailed

\* A trusted file between two rejected ones has run
C8_Witness ==
    /\ pc = "done"
    /\ seen["preflight"][<<97>>] = GroupWritable
    /\ seen["preflight"][<<98>>] = GroupWritable
    /\ Executed("preflight", <<97, 98>>)

(* C9: of two scripts started in the same batch, the one started first has  *)
(* the lesser file name, whatever order os.listdir returned; so no script   *)
(* is started twice.                                                        *)
C9_AscendingOrder ==
    \A i, j \in DOMAIN trace :
        (/\ i < j
         /\ IsExec(trace[i])
         /\ IsExec(trace[j])
         /\ trace[i].batch = trace[j].batch)
           => LexLess(trace[i].file, trace[j].file)

C9_Witness ==
    /\ Executed("preflight", <<97>>)
    /\ Executed("preflight", <<97, 98>>)
    /\ Executed("preflight", <<98>>)

(* C10: a script that exits non-zero is the last thing the run does: the    *)
(* process has exited, with code 0 if the script is of the preflight batch  *)
(* and 1 if it is of the register batch.                                    *)
C10_FailFast ==
    \A i \in DOMAIN trace :
        (IsWait(trace[i]) /\ trace[i].n # 0) =>
            /\ i = Len(trace)
            /\ pc = "exited"
            /\ exit_code = IF trace[i].batch = "preflight" THEN 0 ELSE 1

\* The first of three trusted preflight scripts fails
C10_Witness ==
    /\ pc = "exited"
    /\ exit_code = 0
    /\ trace[Len(trace)] = EvWait("preflight", <<97>>, 3)
    /\ Trusted(seen["preflight"][<<98>>])
    /\ ~Executed("preflight", <<98>>)
    /\ \E n \in Names : Trusted(fs["register"][n])

----------------------------------------------------------------------------
(* The order of the steps of run *)

IsMeta(e) == e.op = "meta"

Terminated == pc \in {"done", "exited", "crashed"}

\* The step of run that control is in; a run that has ended is past them all
Phase ==
    CASE pc = "start" -> 0
      [] pc = "identity" -> 1
      [] pc \in {"loop", "fallback", "eval"} -> 2
      [] pc \in {"list", "batch", "running"} /\ script_type = "preflight" -> 3
      [] pc \in {"list", "batch", "running"} /\ script_type = "register" -> 4
      [] OTHER -> 5

\* The names get_scripts accepted for batch b
AcceptedNames(b) == {n \in Names : Trusted(seen[b][n])}

\* Script n of batch b has run and exited with status 0 before event i
ExitedZeroBefore(b, n, i) ==
    \E k \in 1..(i - 1) : trace[k] = EvWait(b, n, 0)

(* C11: control only moves forward through pre-sleep, instance-id lookup,   *)
(* poll, preflight batch and register batch; the pre-sleep precedes every   *)
(* HTTP request, no API request follows the start of a script, and before   *)
(* a register script starts every accepted preflight script has exited 0.   *)
C11_StepsInOrder ==
    /\ [][Phase' >= Phase]_vars
    /\ [](\A i \in DOMAIN trace :
            /\ (IsMeta(trace[i]) \/ IsGet(trace[i]))
                  => (i > 1 /\ trace[1] = EvSleep(30))
            /\ IsGet(trace[i])
                  => \A k \in 1..(i - 1) : ~IsExec(trace[k])
            /\ (IsExec(trace[i]) /\ trace[i].batch = "register")
                  => \A n \in AcceptedNames("preflight") :
                        ExitedZeroBefore("preflight", n, i))

\* A run of two poll iterations and both batches, to its end
C11_Witness ==
    /\ pc = "done"
    /\ attempt = 2
    /\ Executed("preflight", <<97>>)
    /\ Executed("preflight", <<98>>)
    /\ Executed("register", <<98>>)

----------------------------------------------------------------------------
(* Exit codes *)

\* get_cw_data has returned with a record
RecordObtained == fqdn_ # None

FailedIn(b) ==
    \E i \in DOMAIN trace : IsWait(trace[i]) /\ trace[i].batch = b /\ trace[i].n # 0

\* A read of instance_id raised: the metadata request was the last thing done
IdentityFailed ==
    /\ pc = "crashed"
    /\ trace # <<>>
    /\ IsMeta(trace[Len(trace)])

----------------------------------------------------------------------------
(* Identity and record *)

\* The metadata source answered with a status other than 200
MetaRefused(e) == IsMeta(e) /\ e.n \notin {0, HTTP_OK}

(* C13: once the metadata source has answered the instance-id request with  *)
(* a non-success status, the run has ended with a non-zero exit code and    *)
(* has made no registration-API request and run no script.                  *)
C13_MetaStatusFatal ==
    (\E i \in DOMAIN trace : MetaRefused(trace[i])) =>
        /\ pc \in {"exited", "crashed"}
        /\ exit_code # 0
        /\ \A k \in DOMAIN trace : ~IsGet(trace[k]) /\ ~IsExec(trace[k])

(* C14: the metadata source is queried at most once in a run, and all       *)
(* registration-API requests of the run carry the same identity.            *)
C14_IdentityMemoized ==
    /\ Len(SelectSeq(trace, IsMeta)) <= 1
    /\ \A i, k \in DOMAIN trace :
          (IsGet(trace[i]) /\ IsGet(trace[k])) => trace[i].id = trace[k].id

(* C15: while a script is being executed the recorded fqdn is a non-empty   *)
(* string, and unless no_otp_ok is set a non-empty token is recorded too.   *)
C15_RecordComplete ==
    pc = "running" =>
        /\ fqdn_ \notin {None, ""}
        /\ ~no_otp_ok => ~Falsy(otp_)

(* C16: every script is started with exactly two arguments, the recorded    *)
(* fqdn and the recorded token as the API returned it, or "NO_OTP" when no  *)
(* token was returned.                                                      *)
C16_SameArguments ==
    \A i \in DOMAIN trace :
        IsExec(trace[i]) =>
            /\ Len(trace[i].argv) = 2
            /\ trace[i].argv[1] = fqdn_
            /\ trace[i].argv[2] = (IF otp_ = None THEN NO_OTP ELSE otp_)

----------------------------------------------------------------------------
(* Termination and resources *)

Execs(b, n) == SelectSeq(trace, LAMBDA e : IsExec(e) /\ e.batch = b /\ e.file = n)

(* C17: every run ends, by completion or by a fatal exit; up to then the    *)
(* poll has made at most retry attempts and at most 2*retry requests to the *)
(* registration API, and no file of a batch has been executed twice.        *)
C17_Terminates ==
    /\ <>Terminated
    /\ [](/\ attempt <= retry
          /\ Len(SelectSeq(trace, IsPrimary)) <= retry
          /\ Len(SelectSeq(trace, IsGet)) <= 2 * retry
          /\ \A b \in Batches, n \in Names : Len(Execs(b, n)) <= 1)

\* A complete run that needed every request the poll may make
C17_Witness ==
    /\ pc = "done"
    /\ retry = 2
    /\ Len(SelectSeq(trace, IsGet)) = 4
    /\ Len(Execs("preflight", <<98>>)) = 1
    /\ Len(Execs("register", <<98>>)) = 1

----------------------------------------------------------------------------
(* Delays and fallback inside get_cw_data *)

RetrySleeps == Len(SelectSeq(trace, IsRetrySleep))

(* C18: every incomplete attempt of the poll is followed by exactly one     *)
(* 5-second sleep and the attempt that returns by none: between iterations  *)
(* there are as many sleeps as iterations made, inside an iteration and     *)
(* after the poll has returned one less, and a poll that ran out has slept  *)
(* retry times, the last time just before the fatal exit.                   *)
C18_OneSleepPerIncomplete ==
    /\ pc = "loop" => RetrySleeps = attempt
    /\ pc \in {"fallback", "eval"} => RetrySleeps = attempt - 1
    /\ (PollOver /\ attempt > 0 /\ fatal # "exhausted") => RetrySleeps = attempt - 1
    /\ fatal = "exhausted" =>
          /\ attempt = retry
          /\ RetrySleeps = retry
          /\ retry > 0 => trace[Len(trace)] = EvSleep(RETRY_SLEEP)

\* Two incomplete attempts, two sleeps, then the fatal exit
C18_Witness ==
    /\ fatal = "exhausted"
    /\ retry = 2
    /\ RetrySleeps = 2
    /\ trace[Len(trace)] = EvSleep(RETRY_SLEEP)

\* The legacy API is asked in this step
LegacyAsked == Len(SelectSeq(trace', IsLegacy)) > Len(SelectSeq(trace, IsLegacy))

\* The API requests of the iteration under way all went to the primary API
OnlyPrimaryAsked == \A i \in DOMAIN trace :
                        (IsGet(trace[i]) /\ trace[i].n = attempt) => IsPrimary(trace[i])

(* C19: the legacy API is asked only in a step that follows a non-200       *)
(* answer of the primary API in the same iteration; in an iteration whose   *)
(* primary answer was 200 the legacy API is not asked, also when the        *)
(* payload lacks the token and the iteration ends incomplete.               *)
C19_FallbackOnlyOnStatus ==
    /\ [][LegacyAsked =>
            /\ pc = "fallback"
            /\ api = "v2"
            /\ ~resp.err
            /\ resp.status # HTTP_OK
            /\ attempt' = attempt]_vars
    /\ []((pc \in {"loop", "eval"} /\ api = "v2" /\ ~resp.err /\ resp.status = HTTP_OK)
             => OnlyPrimaryAsked)

\* The primary API answered 200 without a token, the iteration was
\* incomplete and only the primary API was asked in it
C19_Witness ==
    /\ pc = "loop"
    /\ api = "v2"
    /\ Answered(1)
    /\ ~resp.body.obj.has_otp
    /\ ApisOf(trace, attempt) = <<"v2">>
    /\ IsRetrySleep(trace[Len(trace)])

----------------------------------------------------------------------------
(* Validation and the running scripts *)

FilesOf(fl) == {fl[i] : i \in DOMAIN fl}

TrustedIn(dir) == {n \in Names : Trusted(dir[n])}

\* Every child started so far has exited with 0
AllExitedZero(b) ==
    \A i \in DOMAIN trace :
        (IsExec(trace[i]) /\ trace[i].batch = b)
            => \E k \in DOMAIN trace : k > i /\ trace[k] = EvWait(b, trace[i].file, 0)

(* C20: the list of a batch is made once, from the directory as it is when  *)
(* the batch is listed, and before any script of the batch starts; nothing  *)
(* changes it afterwards, and the file started is the next of that list     *)
(* whatever the directory holds by then.  The register directory is read    *)
(* when every preflight script has exited, so it is read as it is then.     *)
(* A run that completes has executed exactly the files trusted at the       *)
(* listing of their batch.                                                  *)
C20_ValidationIsSnapshot ==
    /\ [][(files' # files \/ seen' # seen) =>
            /\ pc = "list"
            /\ ~Executed(script_type, <<97>>) /\ ~Executed(script_type, <<97, 98>>)
            /\ ~Executed(script_type, <<98>>)
            /\ FilesOf(files') = TrustedIn(fs[script_type])
            /\ seen' = [seen EXCEPT ![script_type] = fs[script_type]]]_vars
    /\ [][(pc = "batch" /\ pc' = "running") =>
            /\ files[idx] \in TrustedIn(seen[script_type])
            /\ trace'[Len(trace')].file = files[idx]]_vars
    /\ []((pc = "list" /\ script_type = "register") => AllExitedZero("preflight"))
    /\ [](pc = "done" =>
            \A b \in Batches, n \in Names : Executed(b, n) <=> n \in TrustedIn(seen[b]))

\* The last preflight file lost its owner while the first one ran, and is
\* started all the same
C20_Witness ==
    /\ pc = "running"
    /\ script_type = "preflight"
    /\ changes = 1
    /\ trace[Len(trace)].op = "exec"
    /\ trace[Len(trace)].file = <<98>>
    /\ seen["preflight"][<<98>>] = GoodEntry
    /\ fs["preflight"][<<98>>] = NotRoot
    /\ Executed("preflight", <<97>>)

====
